---------------------------- MODULE Spec2Model ----------------------------
(***************************************************************************)
(* A model of light_pipe_geo/processing/sample.py: SampleManifest (the     *)
(* tuple record and its normalising constructor and concatenate) and       *)
(* LightPipeSample (entry iteration, tiling passes, unshuffle, save).      *)
(*                                                                         *)
(* Python lists are objects with identity: `heap` holds their contents and *)
(* a list is referred to by its index in `heap`.  A SampleManifest is an   *)
(* immutable tuple whose datasets/labels/metadata fields are list          *)
(* references.  Optional Python values are tagged records (None, Bool(b),  *)
(* Str(s), ...) so that `x is None` and isinstance tests are decided on    *)
(* the tag, as the interpreter decides them on the type.                   *)
(***************************************************************************)
EXTENDS Integers, Sequences, FiniteSets, TLC

VARIABLES
    heap,                 \* contents of every live Python list, by reference
    manifests,            \* the SampleManifest values the caller holds
    MANIFEST_SAMPLE_NUM,  \* SampleManifest.MANIFEST_SAMPLE_NUM (class attribute)
    self,                 \* the LightPipeSample object (its attributes)
    gens,                 \* the generator objects made by tile() and shuffle()
    ret                   \* the outcome of the most recent call

vars == <<heap, manifests, MANIFEST_SAMPLE_NUM, self, gens, ret>>

-----------------------------------------------------------------------------
(* Bounds of the model. *)

\* Manifests the caller constructs and keeps.
MaxManifests == 2
\* Length of the sequence of manifests handed to concatenate.
MaxOperands == 2
\* Cap of the process-wide uid counter.
MaxSampleNum == 4

\* Entries a Sample's manifest may grow to through add_data.
MaxEntries == 4
\* Length of the predictions and permutations handed to unshuffle.
MaxPreds == 3
\* Raw tile arrays the tiling collaborator produces in one pass.
MaxTiles == 2
\* Generators made on one Sample.
MaxPasses == 2

-----------------------------------------------------------------------------
(* Python values. *)

None == [kind |-> "None"]
Bool(b) == [kind |-> "bool", val |-> b]
PyInt(n) == [kind |-> "int", val |-> n]
Str(s) == [kind |-> "str", val |-> s]
Dataset(h) == [kind |-> "Dataset", val |-> h]
Dict(d) == [kind |-> "dict", val |-> d]
\* A list object already on the heap, by reference.
ListRef(r) == [kind |-> "list", ref |-> r]
\* A list the caller builds for the call; it is put on the heap on entry.
ListLit(s) == [kind |-> "listlit", val |-> s]

\* Path strings, and the handle gdal.Open returns for each.
Paths == {"a.tif", "b.tif", "c.tif"}
gdalOpen(p) ==
    CASE p = "a.tif" -> "Dataset(a.tif)"
      [] p = "b.tif" -> "Dataset(b.tif)"
      [] p = "c.tif" -> "Dataset(c.tif)"
      [] OTHER -> "RuntimeError"
\* isinstance(dataset, str) for an entry of a datasets list.
IsStr(d) == d \in Paths

EmptyDict == "{}"

-----------------------------------------------------------------------------
(* SampleManifest. *)

\* The decimal digits of n, most significant first.
RECURSIVE Digits(_)
Digits(n) ==
    IF n < 10 THEN <<n>> ELSE Append(Digits(n \div 10), n % 10)

\* f"{n:05d}": the digits of n, zero-padded on the left to a width of 5.
Format05d(n) ==
    LET d == Digits(n)
    IN  IF Len(d) >= 5 THEN d ELSE [k \in 1..(5 - Len(d)) |-> 0] \o d

\* A uid that ignores the counter: every auto-generated uid is sample_00000.
AutoUidFixed(n) == [kind |-> "str", val |-> <<"sample_", Format05d(0)>>]

\* f"sample_{cls.MANIFEST_SAMPLE_NUM:05d}"
AutoUid(n) == [kind |-> "str", val |-> <<"sample_", Format05d(n)>>]
\* A uid string the caller supplies.
UserUid(s) == [kind |-> "str", val |-> <<s, <<>> >>]

\* The namedtuple ("uid", "datasets", "labels", "metadata", "num_datasets");
\* datasets, labels and metadata are list references.
Manifest(uid, datasets, labels, metadata, num_datasets) ==
    [uid |-> uid, datasets |-> datasets, labels |-> labels,
     metadata |-> metadata, num_datasets |-> num_datasets]

\* SampleManifest.__new__ on heap hp with the class counter at cnt.  datasets
\* is Str, Dataset or ListRef; labels is None, Bool or ListRef; metadata is
\* None, Dict or ListRef; num_datasets is None or PyInt.  Yields the new heap,
\* the new counter and the manifest.
SampleManifestNew(hp, cnt, uid, datasets, labels, metadata, num_datasets) ==
    LET uid1 == IF uid.kind = "None" THEN AutoUid(cnt) ELSE uid
        cnt1 == IF uid.kind = "None" THEN cnt + 1 ELSE cnt
        scalar == datasets.kind \in {"Dataset", "str"}
        h1 == IF scalar THEN Append(hp, <<datasets.val>>) ELSE hp
        ds == IF scalar THEN Len(h1) ELSE datasets.ref
        n == Len(h1[ds])
        h2 == CASE labels.kind = "bool" -> Append(h1, <<labels.val>>)
                [] labels.kind = "None" -> Append(h1, [k \in 1..n |-> FALSE])
                [] OTHER -> h1
        lb == IF labels.kind \in {"bool", "None"} THEN Len(h2) ELSE labels.ref
        h3 == CASE metadata.kind = "dict" -> Append(h2, <<metadata.val>>)
                [] metadata.kind = "None" -> Append(h2, [k \in 1..n |-> EmptyDict])
                [] OTHER -> h2
        md == IF metadata.kind \in {"dict", "None"} THEN Len(h3) ELSE metadata.ref
        num == IF num_datasets.kind = "None" THEN n ELSE num_datasets.val
    IN  [heap |-> h3, counter |-> cnt1,
         manifest |-> Manifest(uid1, ds, lb, md, num)]

\* list.copy() left out: the "copy" is the list itself.
ListCopyAlias(hp, r) == [heap |-> hp, ref |-> r]

\* list.copy(): a new list object with the same elements.
ListCopy(hp, r) == [heap |-> Append(hp, hp[r]), ref |-> Len(hp) + 1]

\* `a = b + a` in place of `a += b`: the new elements go in front.
ListIAddInFront(hp, a, b) == [hp EXCEPT ![a] = hp[b] \o hp[a]]

\* `a += b` on lists: a is extended in place by the elements of b.
ListIAdd(hp, a, b) == [hp EXCEPT ![a] = hp[a] \o hp[b]]

\* The loop of concatenate over manifests ms from position k: the three
\* accumulator lists are extended in place and the count is summed.
RECURSIVE ConcatLoop(_, _, _, _, _, _, _)
ConcatLoop(hp, ds, lb, md, num, ms, k) ==
    IF k > Len(ms)
    THEN [heap |-> hp, num |-> num]
    ELSE LET manifest == ms[k]
             h1 == ListIAdd(hp, ds, manifest.datasets)
             h2 == ListIAdd(h1, lb, manifest.labels)
             h3 == ListIAdd(h2, md, manifest.metadata)
         IN  ConcatLoop(h3, ds, lb, md, num + manifest.num_datasets, ms, k + 1)

\* SampleManifest.concatenate of manifest m.  operand is Str or Dataset (a raw
\* source), [kind |-> "SampleManifest", val |-> b] or
\* [kind |-> "seq", val |-> <<b1, ..., bk>>].
ManifestConcatenate(hp, cnt, m, operand, uid) ==
    LET raw == operand.kind \in {"Dataset", "str"}
        w == SampleManifestNew(hp, cnt, None, operand, None, None, None)
        h0 == IF raw THEN w.heap ELSE hp
        c0 == IF raw THEN w.counter ELSE cnt
        ms == CASE raw -> <<w.manifest>>
                [] operand.kind = "SampleManifest" -> <<operand.val>>
                [] OTHER -> operand.val
        cd == ListCopy(h0, m.datasets)
        cl == ListCopy(cd.heap, m.labels)
        cm == ListCopy(cl.heap, m.metadata)
        lp == ConcatLoop(cm.heap, cd.ref, cl.ref, cm.ref, m.num_datasets, ms, 1)
    IN  SampleManifestNew(lp.heap, c0, uid, ListRef(cd.ref), ListRef(cl.ref),
                          ListRef(cm.ref), PyInt(lp.num))

-----------------------------------------------------------------------------------------------------------------------------------------------------
(* The arguments the caller passes. *)

DatasetArgs == {Str("a.tif"), ListLit(<<"b.tif", "Dataset(c.tif)">>)}

\* The optional arguments of SampleManifest(...), one record per call shape:
\* all omitted, scalars, sequences with a uid, an explicit count.
AllOmitted ==
    [uid |-> None, labels |-> None, metadata |-> None, num_datasets |-> None]
Scalars ==
    [uid |-> None, labels |-> Bool(TRUE), metadata |-> Dict("{'k': 1}"),
     num_datasets |-> None]
Sequences ==
    [uid |-> UserUid("u"), labels |-> ListLit(<<FALSE, TRUE>>),
     metadata |-> ListLit(<<"{'k': 1}", "{'k': 2}">>), num_datasets |-> None]
ExplicitCount ==
    [uid |-> None, labels |-> None, metadata |-> None, num_datasets |-> PyInt(1)]
OptionalArgs == {AllOmitted, Scalars, Sequences, ExplicitCount}

UidArgs == {None, UserUid("v")}

\* All sequences over S of length at most n.
SeqsUpTo(S, n) == UNION {[1..k -> S] : k \in 0..n}

\* A list built by the caller becomes a list object on the heap.
Enter(hp, arg) ==
    IF arg.kind = "listlit"
    THEN [heap |-> Append(hp, arg.val), arg |-> ListRef(Len(hp) + 1)]
    ELSE [heap |-> hp, arg |-> arg]

-----------------------------------------------------------------------------
(* The caller.  A call returns into `ret`; the caller reads the value and   *)
(* drops it before its next call, which frees the lists only it referred to.*)

NoSample == [live |-> FALSE]
NoReturn == [op |-> "none", exc |-> "None"]

Idle == ret.op = "none"

ManifestRefs(m) == {m.datasets, m.labels, m.metadata}

LiveRefs ==
    UNION {ManifestRefs(manifests[k]) : k \in 1..Len(manifests)}
    \cup (IF self.live THEN ManifestRefs(self.data) ELSE {})

\* The heap without the trailing lists that nothing refers to any more.
LiveHeap ==
    LET top == IF LiveRefs = {} THEN 0
               ELSE CHOOSE r \in LiveRefs : \A q \in LiveRefs : q <= r
    IN  SubSeq(heap, 1, top)

Discard ==
    /\ ~Idle
    /\ ret' = NoReturn
    /\ heap' = LiveHeap
    /\ UNCHANGED <<manifests, MANIFEST_SAMPLE_NUM, self, gens>>

-----------------------------------------------------------------------------
(* Calls on SampleManifest. *)

Init ==
    /\ heap = <<>>
    /\ manifests = <<>>
    /\ MANIFEST_SAMPLE_NUM = 0
    /\ self = NoSample
    /\ gens = <<>>
    /\ ret = NoReturn

\* m = SampleManifest(uid, datasets, labels, metadata, num_datasets)
Construct(DArgs, OArgs) ==
    /\ Idle
    /\ Len(manifests) < MaxManifests
    /\ \E datasets \in DArgs, o \in OArgs :
          LET e1 == Enter(heap, datasets)
              e2 == Enter(e1.heap, o.labels)
              e3 == Enter(e2.heap, o.metadata)
              r == SampleManifestNew(e3.heap, MANIFEST_SAMPLE_NUM, o.uid,
                                     e1.arg, e2.arg, e3.arg, o.num_datasets)
          IN  /\ r.counter <= MaxSampleNum
              /\ heap' = r.heap
              /\ MANIFEST_SAMPLE_NUM' = r.counter
              /\ manifests' = Append(manifests, r.manifest)
              /\ ret' = [op |-> "SampleManifest", exc |-> "None",
                         val |-> r.manifest,
                         args |-> [datasets |-> datasets, optional |-> o]]
    /\ UNCHANGED <<self, gens>>

\* The operands concatenate is called with: a raw source, one manifest the
\* caller holds, or a sequence of them (by position in `manifests`).
ConcatOperands ==
    {Str("a.tif"), Dataset("Dataset(c.tif)")}
    \cup {[kind |-> "SampleManifest", idx |-> j] : j \in 1..Len(manifests)}
    \cup {[kind |-> "seq", idxs |-> js] :
             js \in SeqsUpTo(1..Len(manifests), MaxOperands)}

\* The operand as the value concatenate receives.
OperandValue(operand) ==
    CASE operand.kind = "SampleManifest" ->
             [kind |-> "SampleManifest", val |-> manifests[operand.idx]]
      [] operand.kind = "seq" ->
             [kind |-> "seq",
              val |-> [k \in 1..Len(operand.idxs) |-> manifests[operand.idxs[k]]]]
      [] OTHER -> operand

\* manifests[a].concatenate(operand, uid)
Concatenate ==
    /\ Idle
    /\ \E a \in 1..Len(manifests), operand \in ConcatOperands, uid \in UidArgs :
          LET r == ManifestConcatenate(heap, MANIFEST_SAMPLE_NUM,
                                       manifests[a], OperandValue(operand), uid)
          IN  /\ r.counter <= MaxSampleNum
              /\ heap' = r.heap
              /\ MANIFEST_SAMPLE_NUM' = r.counter
              /\ ret' = [op |-> "concatenate", exc |-> "None",
                         val |-> r.manifest,
                         args |-> [a |-> a, operand |-> operand, uid |-> uid]]
    /\ UNCHANGED <<manifests, self, gens>>

NextManifest ==
    \/ Construct(DatasetArgs, OptionalArgs)
    \/ Concatenate
    \/ Discard

SpecManifest == Init /\ [][NextManifest]_vars

-----------------------------------------------------------------------------
(* LightPipeSample: construction, add_data, entry iteration, load. *)

\* The defaults of LightPipeSample.__init__; `preds` defaults to the list
\* made by list() when the function was defined.
DefaultTileY == 224
DefaultTileX == 224
InitDefaults ==
    [preds |-> [kind |-> "list", val |-> <<>>],
     pos_only |-> Bool(FALSE), non_null_only |-> Bool(FALSE),
     tile_y |-> PyInt(DefaultTileY), tile_x |-> PyInt(DefaultTileX),
     array_dtype |-> Str("uint16"), row_major |-> Bool(FALSE),
     tile_coords |-> None, shuffle_indices |-> None]

\* LightPipeSample.__init__(data, **kw): data is a manifest
\* ([kind |-> "SampleManifest", val |-> m]) or raw data (Str, Dataset, ListRef).
SampleInit(hp, cnt, data, kw) ==
    LET w == SampleManifestNew(hp, cnt, None, data, None, None, None)
        wrap == data.kind # "SampleManifest"
    IN  [heap |-> IF wrap THEN w.heap ELSE hp,
         counter |-> IF wrap THEN w.counter ELSE cnt,
         self |-> [live |-> TRUE,
                   data |-> IF wrap THEN w.manifest ELSE data.val,
                   preds |-> kw.preds, pos_only |-> kw.pos_only,
                   non_null_only |-> kw.non_null_only,
                   tile_y |-> kw.tile_y, tile_x |-> kw.tile_x,
                   array_dtype |-> kw.array_dtype, row_major |-> kw.row_major,
                   tile_coords |-> kw.tile_coords,
                   shuffle_indices |-> kw.shuffle_indices,
                   band_map |-> [kind |-> "unset"],
                   _i |-> 0]]

\* The data a Sample is built from or extended with: a manifest the caller
\* holds, one raw source, or a list of raw sources.
DataArgs ==
    {[kind |-> "SampleManifest", idx |-> j] : j \in 1..Len(manifests)}
    \cup {Str("a.tif"), ListLit(<<"c.tif", "Dataset(a.tif)">>)}

DataValue(hp, data) ==
    IF data.kind = "SampleManifest"
    THEN [heap |-> hp, arg |-> [kind |-> "SampleManifest", val |-> manifests[data.idx]]]
    ELSE Enter(hp, data)

\* sample = LightPipeSample(data, **kw)
NewSample(Kw) ==
    /\ Idle
    /\ ~self.live
    /\ \E data \in DataArgs, kw \in Kw :
          LET e == DataValue(heap, data)
              r == SampleInit(e.heap, MANIFEST_SAMPLE_NUM, e.arg, kw)
          IN  /\ r.counter <= MaxSampleNum
              /\ heap' = r.heap
              /\ MANIFEST_SAMPLE_NUM' = r.counter
              /\ self' = r.self
              /\ ret' = [op |-> "LightPipeSample", exc |-> "None",
                         args |-> [data |-> data, kw |-> kw]]
    /\ UNCHANGED <<manifests, gens>>

\* add_data that also rewinds the cursor.
SampleAddDataRewind(hp, cnt, smp, data) ==
    LET w == SampleManifestNew(hp, cnt, None, data, None, None, None)
        wrap == data.kind # "SampleManifest"
        r == ManifestConcatenate(IF wrap THEN w.heap ELSE hp,
                                 IF wrap THEN w.counter ELSE cnt,
                                 smp.data,
                                 [kind |-> "SampleManifest",
                                  val |-> IF wrap THEN w.manifest ELSE data.val],
                                 None)
    IN  [heap |-> r.heap, counter |-> r.counter,
         self |-> [smp EXCEPT !.data = r.manifest, !._i = 0]]

\* LightPipeSample.add_data(data): the Sample's manifest after the call.
SampleAddData(hp, cnt, smp, data) ==
    LET w == SampleManifestNew(hp, cnt, None, data, None, None, None)
        wrap == data.kind # "SampleManifest"
        r == ManifestConcatenate(IF wrap THEN w.heap ELSE hp,
                                 IF wrap THEN w.counter ELSE cnt,
                                 smp.data,
                                 [kind |-> "SampleManifest",
                                  val |-> IF wrap THEN w.manifest ELSE data.val],
                                 None)
    IN  [heap |-> r.heap, counter |-> r.counter,
         self |-> [smp EXCEPT !.data = r.manifest]]

\* A reference to the Sample object (`return self`).
TheSample == [kind |-> "LightPipeSample", ref |-> "self"]

\* sample.add_data(data)
AddData ==
    /\ Idle
    /\ self.live
    /\ \E data \in DataArgs :
          LET e == DataValue(heap, data)
              r == SampleAddData(e.heap, MANIFEST_SAMPLE_NUM, self, e.arg)
          IN  /\ r.counter <= MaxSampleNum
              /\ r.self.data.num_datasets <= MaxEntries
              /\ Len(r.heap[r.self.data.datasets]) <= MaxEntries
              /\ heap' = r.heap
              /\ MANIFEST_SAMPLE_NUM' = r.counter
              /\ self' = r.self
              /\ ret' = [op |-> "add_data", exc |-> "None", val |-> TheSample,
                         args |-> [data |-> data, old |-> self.data]]
    /\ UNCHANGED <<manifests, gens>>

\* iter(sample): __iter__ returns the Sample itself; the cursor is not reset.
Iter ==
    /\ Idle
    /\ self.live
    /\ ret' = [op |-> "iter", exc |-> "None", val |-> TheSample]
    /\ UNCHANGED <<heap, manifests, MANIFEST_SAMPLE_NUM, self, gens>>

\* The handle next() and load() work with for entry d of the datasets list.
Opened(d) == IF IsStr(d) THEN gdalOpen(d) ELSE d

NoEntry == [dataset |-> "", is_label |-> FALSE, metadata |-> ""]

\* LightPipeSample.next(): the cursor after the call and what the call
\* returns or raises.  Indexing a list at or past its length raises IndexError.
SampleNext(hp, smp) ==
    LET i == smp._i
        n == smp.data.num_datasets
        ds == hp[smp.data.datasets]
        lb == hp[smp.data.labels]
        md == hp[smp.data.metadata]
    IN  IF i < n
        THEN [self |-> [smp EXCEPT !._i = i + 1],
              exc |-> IF i < Len(ds) /\ i < Len(lb) /\ i < Len(md)
                      THEN "None" ELSE "IndexError",
              val |-> IF i < Len(ds) /\ i < Len(lb) /\ i < Len(md)
                      THEN [dataset |-> Opened(ds[i + 1]),
                            is_label |-> lb[i + 1], metadata |-> md[i + 1]]
                      ELSE NoEntry]
        ELSE [self |-> smp, exc |-> "StopIteration", val |-> NoEntry]

\* next(sample)
NextCall ==
    /\ Idle
    /\ self.live
    /\ LET r == SampleNext(heap, self)
       IN  /\ self' = r.self
           /\ ret' = [op |-> "next", exc |-> r.exc, val |-> r.val,
                      args |-> [i |-> self._i]]
    /\ UNCHANGED <<heap, manifests, MANIFEST_SAMPLE_NUM, gens>>

\* The loop of load() from index i (0-based): each path string of the
\* datasets list is replaced in place by its opened handle.
RECURSIVE LoadLoop(_, _, _, _)
LoadLoop(hp, ds, n, i) ==
    IF i >= n THEN [heap |-> hp, exc |-> "None"]
    ELSE IF i >= Len(hp[ds]) THEN [heap |-> hp, exc |-> "IndexError"]
    ELSE LoadLoop([hp EXCEPT ![ds][i + 1] = Opened(hp[ds][i + 1])], ds, n, i + 1)

\* sample.load()
Load ==
    /\ Idle
    /\ self.live
    /\ LET r == LoadLoop(heap, self.data.datasets, self.data.num_datasets, 0)
       IN  /\ heap' = r.heap
           /\ ret' = [op |-> "load", exc |-> r.exc]
    /\ UNCHANGED <<manifests, MANIFEST_SAMPLE_NUM, self, gens>>

NextData ==
    \/ Construct({ListLit(<<"b.tif", "Dataset(c.tif)">>)},
                 {Scalars, Sequences, ExplicitCount})
    \/ NewSample({InitDefaults})
    \/ AddData
    \/ NextCall
    \/ Load
    \/ Discard

SpecData == Init /\ [][NextData]_vars

-----------------------------------------------------------------------------
(* LightPipeSample: unshuffle and save. *)

PyList(v) == [kind |-> "list", val |-> v]
NdArray(v) == [kind |-> "ndarray", val |-> v]

\* np.array(preds) for a preds that is not an ndarray already: an ndarray
\* with the elements of the sequence, in order.
NpArray(preds) ==
    IF preds.kind = "ndarray" THEN preds ELSE NdArray(preds.val)

\* np.arange(m)
Arange(m) == [k \in 1..m |-> k - 1]
\* np.zeros_like(a)
ZerosLike(a) == [k \in 1..Len(a) |-> 0]

\* a[idx] = vals from position k on (numpy writes them in order; a later
\* write to the same place wins).  An index outside a raises IndexError.
RECURSIVE Scatter(_, _, _, _)
Scatter(a, idx, vals, k) ==
    IF k > Len(idx) THEN [exc |-> "None", val |-> a]
    ELSE IF idx[k] >= Len(a) THEN [exc |-> "IndexError", val |-> a]
    ELSE Scatter([a EXCEPT ![idx[k] + 1] = vals[k]], idx, vals, k + 1)

\* a[idx]: the elements of a at the (0-based) indices idx.
Gather(a, idx) ==
    IF \E k \in 1..Len(idx) : idx[k] >= Len(a)
    THEN [exc |-> "IndexError", val |-> <<>>]
    ELSE [exc |-> "None", val |-> [k \in 1..Len(idx) |-> a[idx[k] + 1]]]

\* preds[shuffle_indices]: the permutation applied once more, not inverted.
ReorderBySame(preds, shuffle_indices) == Gather(preds, shuffle_indices)

\* Lines 174-176: the inverse permutation is built and preds is indexed by it.
Reorder(preds, shuffle_indices) ==
    LET u == Scatter(ZerosLike(shuffle_indices), shuffle_indices,
                     Arange(Len(shuffle_indices)), 1)
    IN  IF u.exc # "None" THEN [exc |-> u.exc, val |-> <<>>]
        ELSE Gather(preds, u.val)

\* unshuffle that insists on shuffle indices: without any it raises.
SampleUnshuffleStrict(smp, preds, shuffle_indices) ==
    LET p1 == IF preds.kind = "None" THEN smp.preds ELSE preds
        si == IF shuffle_indices.kind = "None" /\ smp.shuffle_indices.kind # "None"
              THEN smp.shuffle_indices ELSE shuffle_indices
    IN  IF p1.kind = "None" \/ si.kind = "None"
        THEN [exc |-> "AssertionError", val |-> NdArray(<<>>)]
        ELSE LET r == Reorder(NpArray(p1).val, si.val)
             IN  [exc |-> r.exc, val |-> NdArray(r.val)]

\* LightPipeSample.unshuffle(preds, shuffle_indices)
SampleUnshuffle(smp, preds, shuffle_indices) ==
    LET p1 == IF preds.kind = "None" THEN smp.preds ELSE preds
        si == IF shuffle_indices.kind = "None" /\ smp.shuffle_indices.kind # "None"
              THEN smp.shuffle_indices ELSE shuffle_indices
    IN  IF p1.kind = "None"
        THEN [exc |-> "AssertionError", val |-> NdArray(<<>>)]
        ELSE IF si.kind = "None"
        THEN [exc |-> "None", val |-> NpArray(p1)]
        ELSE LET r == Reorder(NpArray(p1).val, si.val)
             IN  [exc |-> r.exc, val |-> NdArray(r.val)]

\* The permutations of 0..m-1, as index arrays.
Perms(m) ==
    {p \in [1..m -> 0..(m - 1)] : \A j, k \in 1..m : p[j] = p[k] => j = k}

PredValues == {10, 11, 12}

\* The predictions and index arrays unshuffle is called with.
PredArgs == {None} \cup {PyList(v) : v \in SeqsUpTo(PredValues, MaxPreds)}
IndexArgs == {None} \cup {NdArray(p) : p \in UNION {Perms(m) : m \in 0..MaxPreds}}

\* sample.unshuffle(preds, shuffle_indices)
Unshuffle(PArgs, IArgs) ==
    /\ Idle
    /\ self.live
    /\ \E preds \in PArgs, shuffle_indices \in IArgs :
          LET r == SampleUnshuffle(self, preds, shuffle_indices)
          IN  ret' = [op |-> "unshuffle", exc |-> r.exc, val |-> r.val,
                      args |-> [preds |-> preds,
                                shuffle_indices |-> shuffle_indices]]
    /\ UNCHANGED <<heap, manifests, MANIFEST_SAMPLE_NUM, self, gens>>

\* The Samples of the unshuffle and save specifications: built with the
\* defaults, with preds=None, and with predictions and shuffle indices.
KwPreds ==
    {InitDefaults,
     [InitDefaults EXCEPT !.preds = None],
     [InitDefaults EXCEPT !.preds = PyList(<<11, 12, 10>>),
                          !.shuffle_indices = NdArray(<<1, 2, 0>>)]}

NextUnshuffle ==
    \/ NewSample(KwPreds)
    \/ Unshuffle(PredArgs, IndexArgs)
    \/ Discard

SpecUnshuffle == Init /\ [][NextUnshuffle]_vars

-----------------------------------------------------------------------------
(* LightPipeSample: tiling passes. *)

\* The keyword arguments of tile(); None stands for an omitted argument.
TileOmitted ==
    [tile_y |-> None, tile_x |-> None, array_dtype |-> None, row_major |-> None,
     tile_coords |-> None, pos_only |-> None, non_null_only |-> None]

\* Tile coordinates the caller passes, and the grid the collaborator
\* computes when none are passed.
GivenCoords == [kind |-> "coords", val |-> "given"]
ComputedCoords == [kind |-> "coords", val |-> "computed"]

GeometryArgs ==
    {[TileOmitted EXCEPT !.tile_y = PyInt(2), !.array_dtype = Str("float32"),
                         !.tile_coords = GivenCoords],
     [TileOmitted EXCEPT !.tile_x = PyInt(3), !.row_major = Bool(TRUE)],
     [TileOmitted EXCEPT !.tile_x = PyInt(5), !.row_major = Bool(FALSE),
                         !.pos_only = Bool(FALSE),
                         !.non_null_only = Bool(TRUE)]}

FilterArgs ==
    {[TileOmitted EXCEPT !.pos_only = a, !.non_null_only = b] :
        a, b \in {None, Bool(TRUE), Bool(FALSE)}}

\* `arg or stored`: an explicit False is taken for an omitted argument.
ResolveTruthy(arg, stored) ==
    IF arg.kind = "None" \/ (arg.kind = "bool" /\ ~arg.val) THEN stored ELSE arg

\* `if arg is None: arg = self.attr / else: self.attr = arg`: the value the
\* pass uses, which is also the value stored afterwards.
Resolve(arg, stored) == IF arg.kind = "None" THEN stored ELSE arg

\* Lines 191-218 of tile(): the resolved configuration.
TileResolve(smp, kw) ==
    [tile_y |-> Resolve(kw.tile_y, smp.tile_y),
     tile_x |-> Resolve(kw.tile_x, smp.tile_x),
     array_dtype |-> Resolve(kw.array_dtype, smp.array_dtype),
     row_major |-> Resolve(kw.row_major, smp.row_major),
     tile_coords |-> Resolve(kw.tile_coords, smp.tile_coords),
     pos_only |-> Resolve(kw.pos_only, smp.pos_only),
     non_null_only |-> Resolve(kw.non_null_only, smp.non_null_only)]

\* The band indices (0-based) of the entries of labels that equal b.
RECURSIVE BandsOf(_, _, _)
BandsOf(labels, b, k) ==
    IF k > Len(labels) THEN <<>>
    ELSE (IF labels[k] = b THEN <<k - 1>> ELSE <<>>) \o BandsOf(labels, b, k + 1)

\* The band_map of get_tiles: is-label flag -> band indices of a tile array,
\* one band per manifest entry.
BandMap(labels) == [b \in BOOLEAN |-> BandsOf(labels, b, 1)]

\* tiling.get_tiles(**call) when the raster yields the tile arrays `grid` (in
\* spatial order) and the shuffle draws the permutation `perm`.
GetTiles(call, grid, perm) ==
    [tiles |-> IF call.shuffle_tiles
               THEN [k \in 1..Len(perm) |-> grid[perm[k] + 1]]
               ELSE grid,
     tile_coords |-> IF call.tile_coords.kind = "None"
                     THEN ComputedCoords ELSE call.tile_coords,
     shuffle_indices |-> IF call.shuffle_tiles THEN NdArray(perm) ELSE None,
     band_map |-> BandMap(call.labels)]

\* tile() that stores the returned shuffle_indices only when the pass was
\* shuffled, and keeps the permutation of an earlier pass otherwise.
TileStartKeepPermutation(hp, smp, kw, shuffle_tiles, grid, perm) ==
    LET used == TileResolve(smp, kw)
        call == [fn |-> "get_tiles",
                 datasets |-> hp[smp.data.datasets],
                 labels |-> hp[smp.data.labels],
                 tile_y |-> used.tile_y, tile_x |-> used.tile_x,
                 array_dtype |-> used.array_dtype, row_major |-> used.row_major,
                 tile_coords |-> used.tile_coords,
                 shuffle_tiles |-> shuffle_tiles]
        out == GetTiles(call, grid, perm)
    IN  [self |-> [smp EXCEPT !.tile_y = used.tile_y, !.tile_x = used.tile_x,
                              !.array_dtype = used.array_dtype,
                              !.row_major = used.row_major,
                              !.pos_only = used.pos_only,
                              !.non_null_only = used.non_null_only,
                              !.tile_coords = out.tile_coords,
                              !.shuffle_indices = IF shuffle_tiles
                                                   THEN out.shuffle_indices
                                                   ELSE smp.shuffle_indices,
                              !.band_map = [kind |-> "dict", val |-> out.band_map]],
         used |-> used, call |-> call, out |-> out]

\* Lines 189-229 of tile(): the body up to the loop.  Yields the Sample
\* afterwards, the call made to get_tiles and what it returned.
TileStart(hp, smp, kw, shuffle_tiles, grid, perm) ==
    LET used == TileResolve(smp, kw)
        call == [fn |-> "get_tiles",
                 datasets |-> hp[smp.data.datasets],
                 labels |-> hp[smp.data.labels],
                 tile_y |-> used.tile_y, tile_x |-> used.tile_x,
                 array_dtype |-> used.array_dtype, row_major |-> used.row_major,
                 tile_coords |-> used.tile_coords,
                 shuffle_tiles |-> shuffle_tiles]
        out == GetTiles(call, grid, perm)
    IN  [self |-> [smp EXCEPT !.tile_y = used.tile_y, !.tile_x = used.tile_x,
                              !.array_dtype = used.array_dtype,
                              !.row_major = used.row_major,
                              !.pos_only = used.pos_only,
                              !.non_null_only = used.non_null_only,
                              !.tile_coords = out.tile_coords,
                              !.shuffle_indices = out.shuffle_indices,
                              !.band_map = [kind |-> "dict", val |-> out.band_map]],
         used |-> used, call |-> call, out |-> out]

\* tile_array[bands]: the bands of a tile array at the given indices.
Bands(tile_array, bands) == [k \in 1..Len(bands) |-> tile_array[bands[k] + 1]]

\* np.allclose(a, 0) on pixel counts: every element is zero.
AllClose0(a) == \A k \in 1..Len(a) : a[k] = 0

LightPipeTile(X, y, band_map) == [X |-> X, y |-> y, band_map |-> band_map]
NoTile == LightPipeTile(<<>>, <<>>, BandMap(<<>>))

\* The filters with X and y exchanged.
SkipSwapped(X, y, pos_only, non_null_only) ==
    \/ pos_only /\ AllClose0(X)
    \/ non_null_only /\ AllClose0(y)

\* Lines 234-237: whether the tile is skipped.
Skip(X, y, pos_only, non_null_only) ==
    \/ pos_only /\ AllClose0(y)
    \/ non_null_only /\ AllClose0(X)

\* The loop of tile() ending at the first tile a filter rejects (`break` in
\* place of `continue`).
TileLoopBreak(tiles, band_map, pos_only, non_null_only) ==
    IF tiles = <<>>
    THEN [exc |-> "StopIteration", tiles |-> <<>>, val |-> NoTile]
    ELSE LET tile_array == Head(tiles)
             X == Bands(tile_array, band_map[FALSE])
             y == Bands(tile_array, band_map[TRUE])
         IN  IF Skip(X, y, pos_only, non_null_only)
             THEN [exc |-> "StopIteration", tiles |-> <<>>, val |-> NoTile]
             ELSE [exc |-> "None", tiles |-> Tail(tiles),
                   val |-> LightPipeTile(X, y, band_map)]

\* The loop of tile() from the raw tile arrays still to come, up to the next
\* yield or to the end of the sequence.
RECURSIVE TileLoop(_, _, _, _)
TileLoop(tiles, band_map, pos_only, non_null_only) ==
    IF tiles = <<>>
    THEN [exc |-> "StopIteration", tiles |-> <<>>, val |-> NoTile]
    ELSE LET tile_array == Head(tiles)
             X == Bands(tile_array, band_map[FALSE])
             y == Bands(tile_array, band_map[TRUE])
         IN  IF Skip(X, y, pos_only, non_null_only)
             THEN TileLoop(Tail(tiles), band_map, pos_only, non_null_only)
             ELSE [exc |-> "None", tiles |-> Tail(tiles),
                   val |-> LightPipeTile(X, y, band_map)]

\* A generator object of tile(): not started, suspended at the yield, or
\* finished.  tiles, band_map, tile_coords, shuffle_indices, pos_only and
\* non_null_only are the local variables of its frame; `raw` and `yielded`
\* record what the pass received and produced.
NewGen(kw, shuffle_tiles, via) ==
    [state |-> "created", via |-> via, kw |-> kw, shuffle_tiles |-> shuffle_tiles,
     tiles |-> <<>>, band_map |-> BandMap(<<>>),
     tile_coords |-> None, shuffle_indices |-> None,
     pos_only |-> FALSE, non_null_only |-> FALSE,
     raw |-> <<>>, yielded |-> <<>>]
Dropped == [state |-> "dropped"]

\* The generators the caller still holds.
Held == {g \in 1..Len(gens) : gens[g].state # "dropped"}

\* tile() as an ordinary function would start: the arguments are resolved
\* and stored on the Sample at the call, before anything is pulled.
TileCallEager(Args, Flags, passes, slots) ==
    /\ Idle
    /\ self.live
    /\ Len(gens) < passes
    /\ Cardinality(Held) < slots
    /\ \E kw \in Args, shuffle_tiles \in Flags :
          LET used == TileResolve(self, kw)
          IN  /\ gens' = Append(gens, NewGen(kw, shuffle_tiles, "tile"))
              /\ self' = [self EXCEPT !.tile_y = used.tile_y,
                                      !.tile_x = used.tile_x,
                                      !.array_dtype = used.array_dtype,
                                      !.row_major = used.row_major,
                                      !.tile_coords = used.tile_coords,
                                      !.pos_only = used.pos_only,
                                      !.non_null_only = used.non_null_only]
              /\ ret' = [op |-> "tile", exc |-> "None",
                         args |-> [kw |-> kw, shuffle_tiles |-> shuffle_tiles],
                         calls |-> <<>>]
    /\ UNCHANGED <<heap, manifests, MANIFEST_SAMPLE_NUM>>

\* g = sample.tile(**kw, shuffle_tiles=...): the generator is made, no line of
\* the body runs.
TileCall(Args, Flags, passes, slots) ==
    /\ Idle
    /\ self.live
    /\ Len(gens) < passes
    /\ Cardinality(Held) < slots
    /\ \E kw \in Args, shuffle_tiles \in Flags :
          /\ gens' = Append(gens, NewGen(kw, shuffle_tiles, "tile"))
          /\ ret' = [op |-> "tile", exc |-> "None",
                     args |-> [kw |-> kw, shuffle_tiles |-> shuffle_tiles],
                     calls |-> <<>>]
    /\ UNCHANGED <<heap, manifests, MANIFEST_SAMPLE_NUM, self>>

\* g = sample.shuffle(**kw): a generator that delegates to
\* tile(shuffle_tiles=True, **kw) when first pulled.
ShuffleCall(Args, passes, slots) ==
    /\ Idle
    /\ self.live
    /\ Len(gens) < passes
    /\ Cardinality(Held) < slots
    /\ \E kw \in Args :
          /\ gens' = Append(gens, NewGen(kw, TRUE, "shuffle"))
          /\ ret' = [op |-> "shuffle", exc |-> "None", args |-> [kw |-> kw],
                     calls |-> <<>>]
    /\ UNCHANGED <<heap, manifests, MANIFEST_SAMPLE_NUM, self>>

\* next(g): the body of tile() runs to its next yield or to its end.
Pull(Values) ==
    /\ Idle
    /\ \E g \in Held :
          LET gen == gens[g]
          IN  \/ /\ gen.state = "created"
                 /\ \E grid \in SeqsUpTo([1..Len(heap[self.data.labels]) -> Values],
                                          MaxTiles) :
                    \E perm \in Perms(Len(grid)) :
                       LET st == TileStart(heap, self, gen.kw, gen.shuffle_tiles,
                                           grid, perm)
                           lp == TileLoop(st.out.tiles, st.out.band_map,
                                          st.used.pos_only.val,
                                          st.used.non_null_only.val)
                       IN  /\ gen.shuffle_tiles \/ perm = Arange(Len(grid))
                           /\ self' = st.self
                           /\ gens' = [gens EXCEPT ![g] =
                                  [gen EXCEPT
                                     !.state = IF lp.exc = "None"
                                               THEN "suspended" ELSE "done",
                                     !.tiles = lp.tiles,
                                     !.band_map = st.out.band_map,
                                     !.tile_coords = st.out.tile_coords,
                                     !.shuffle_indices = st.out.shuffle_indices,
                                     !.pos_only = st.used.pos_only.val,
                                     !.non_null_only = st.used.non_null_only.val,
                                     !.raw = st.out.tiles,
                                     !.yielded = IF lp.exc = "None"
                                                 THEN <<lp.val>> ELSE <<>>]]
                           /\ ret' = [op |-> "pull", exc |-> lp.exc, val |-> lp.val,
                                      args |-> [g |-> g], calls |-> <<st.call>>,
                                      returned |->
                                        [tile_coords |-> st.out.tile_coords,
                                         shuffle_indices |-> st.out.shuffle_indices,
                                         band_map |-> st.out.band_map]]
              \/ /\ gen.state = "suspended"
                 /\ LET lp == TileLoop(gen.tiles, gen.band_map, gen.pos_only,
                                       gen.non_null_only)
                    IN  /\ gens' = [gens EXCEPT ![g] =
                               [gen EXCEPT
                                  !.state = IF lp.exc = "None"
                                            THEN "suspended" ELSE "done",
                                  !.tiles = lp.tiles,
                                  !.yielded = IF lp.exc = "None"
                                              THEN Append(gen.yielded, lp.val)
                                              ELSE gen.yielded]]
                        /\ ret' = [op |-> "pull", exc |-> lp.exc, val |-> lp.val,
                                   args |-> [g |-> g], calls |-> <<>>]
                 /\ UNCHANGED self
              \/ /\ gen.state = "done"
                 /\ ret' = [op |-> "pull", exc |-> "StopIteration", val |-> NoTile,
                            args |-> [g |-> g], calls |-> <<>>]
                 /\ UNCHANGED <<self, gens>>
    /\ UNCHANGED <<heap, manifests, MANIFEST_SAMPLE_NUM>>

\* del g: the caller drops a generator.
DropGen ==
    /\ Idle
    /\ \E g \in Held : gens' = [gens EXCEPT ![g] = Dropped]
    /\ UNCHANGED <<heap, manifests, MANIFEST_SAMPLE_NUM, self, ret>>

\* A Sample built with every tiling attribute different from its default.
AltConfig ==
    [InitDefaults EXCEPT !.pos_only = Bool(TRUE), !.non_null_only = Bool(TRUE),
                         !.tile_y = PyInt(7), !.tile_x = PyInt(7),
                         !.array_dtype = Str("uint8"), !.row_major = Bool(TRUE),
                         !.tile_coords = [kind |-> "coords", val |-> "init"]]

\* Filtering: one pass over feature and label bands of any content.
NextTile ==
    \/ Construct({ListLit(<<"b.tif", "Dataset(c.tif)">>)}, {Sequences})
    \/ NewSample({InitDefaults, AltConfig})
    \/ TileCall(FilterArgs, {FALSE}, 1, 1)
    \/ ShuffleCall({TileOmitted, [TileOmitted EXCEPT !.pos_only = Bool(TRUE)]}, 1, 1)
    \/ Pull({0, 1})
    \/ DropGen
    \/ Discard

SpecTile == Init /\ [][NextTile]_vars

\* Configuration: passes with explicit and omitted arguments, one after
\* another, over tiles whose content does not matter.
NextConfig ==
    \/ NewSample({InitDefaults, AltConfig})
    \/ TileCall(GeometryArgs \cup {TileOmitted}, BOOLEAN, MaxPasses, 1)
    \/ ShuffleCall(GeometryArgs, MaxPasses, 1)
    \/ Pull({1})
    \/ DropGen
    \/ Discard

SpecConfig == Init /\ [][NextConfig]_vars

-----------------------------------------------------------------------------
(* LightPipeSample: save. *)

\* A path is its stem and its extension.
SavePaths == {<<"out", ".tif">>, <<"out", ".csv">>, <<"out", ".xyz">>}

\* raster_io.file_is_a(path, extension)
FileIsA(path, extension) == path[2] = extension

\* The keyword arguments of save() that reach the raster writer.
SaveOmitted == [tile_y |-> None, tile_x |-> None, row_major |-> None]
SaveArgs == {SaveOmitted, [SaveOmitted EXCEPT !.tile_y = PyInt(2),
                                               !.row_major = Bool(TRUE)]}

NoCalls == <<>>

\* raster_trans.make_north_up_dataset_from_tiles_like(**call): the call is
\* recorded, the handle of the assembled dataset is returned.
MakeNorthUpDatasetFromTilesLike(call) ==
    [exc |-> "None", val |-> Dataset("out_dataset"), calls |-> <<call>>]

\* _save_preds_as_geotiff without the unshuffle step: the predictions go to
\* the writer as they came.
SavePredsAsGeotiffRaw(hp, smp, geotiff_path, preds, kw) ==
    MakeNorthUpDatasetFromTilesLike(
        [fn |-> "make_north_up_dataset_from_tiles_like",
         datasets |-> hp[smp.data.datasets], filepath |-> geotiff_path,
         tiles |-> preds,
         tile_y |-> IF kw.tile_y.kind = "None" THEN smp.tile_y ELSE kw.tile_y,
         tile_x |-> IF kw.tile_x.kind = "None" THEN smp.tile_x ELSE kw.tile_x,
         row_major |-> IF kw.row_major.kind = "None"
                       THEN smp.row_major ELSE kw.row_major])

\* LightPipeSample._save_preds_as_geotiff(geotiff_path, preds, **kw)
SavePredsAsGeotiff(hp, smp, geotiff_path, preds, kw) ==
    LET u == IF smp.shuffle_indices.kind # "None"
             THEN SampleUnshuffle(smp, preds, None)
             ELSE [exc |-> "None", val |-> preds]
    IN  IF u.exc # "None"
        THEN [exc |-> u.exc, val |-> None, calls |-> NoCalls]
        ELSE MakeNorthUpDatasetFromTilesLike(
                 [fn |-> "make_north_up_dataset_from_tiles_like",
                  datasets |-> hp[smp.data.datasets], filepath |-> geotiff_path,
                  tiles |-> u.val,
                  tile_y |-> IF kw.tile_y.kind = "None"
                             THEN smp.tile_y ELSE kw.tile_y,
                  tile_x |-> IF kw.tile_x.kind = "None"
                             THEN smp.tile_x ELSE kw.tile_x,
                  row_major |-> IF kw.row_major.kind = "None"
                                THEN smp.row_major ELSE kw.row_major])

\* LightPipeSample._save_preds_as_csv
SavePredsAsCsv(hp, smp, geotiff_path, preds, kw) ==
    [exc |-> "NotImplementedError", val |-> None, calls |-> NoCalls]

\* save() with a .csv path sent down the raster writer path.
SampleSaveCsvAsGeotiff(hp, smp, savepath, preds, kw) ==
    LET p1 == IF preds.kind = "None" THEN smp.preds ELSE preds
    IN  IF p1.kind = "None"
        THEN [exc |-> "AssertionError", val |-> None, calls |-> NoCalls]
        ELSE IF FileIsA(savepath, ".tif") \/ FileIsA(savepath, ".csv")
        THEN SavePredsAsGeotiff(hp, smp, savepath, NpArray(p1), kw)
        ELSE [exc |-> "NotImplementedError", val |-> None, calls |-> NoCalls]

\* LightPipeSample.save(savepath, preds, **kw)
SampleSave(hp, smp, savepath, preds, kw) ==
    LET p1 == IF preds.kind = "None" THEN smp.preds ELSE preds
    IN  IF p1.kind = "None"
        THEN [exc |-> "AssertionError", val |-> None, calls |-> NoCalls]
        ELSE IF FileIsA(savepath, ".tif")
        THEN SavePredsAsGeotiff(hp, smp, savepath, NpArray(p1), kw)
        ELSE IF FileIsA(savepath, ".csv")
        THEN SavePredsAsCsv(hp, smp, savepath, NpArray(p1), kw)
        ELSE [exc |-> "NotImplementedError", val |-> None, calls |-> NoCalls]

\* sample.save(savepath, preds, **kw)
Save(PArgs) ==
    /\ Idle
    /\ self.live
    /\ \E savepath \in SavePaths, preds \in PArgs, kw \in SaveArgs :
          LET r == SampleSave(heap, self, savepath, preds, kw)
          IN  ret' = [op |-> "save", exc |-> r.exc, val |-> r.val,
                      args |-> [savepath |-> savepath, preds |-> preds,
                                kw |-> kw],
                      calls |-> r.calls]
    /\ UNCHANGED <<heap, manifests, MANIFEST_SAMPLE_NUM, self, gens>>

\* Predictions are saved and unshuffled on Samples built with or without
\* predictions, before and after a pass over the tiles.
NextSave ==
    \/ NewSample(KwPreds)
    \/ TileCall({TileOmitted}, BOOLEAN, 1, 1)
    \/ Pull({1})
    \/ DropGen
    \/ Save(PredArgs)
    \/ Unshuffle({None, PyList(<<10, 11>>)}, {None})
    \/ Discard

SpecSave == Init /\ [][NextSave]_vars

\* Several passes on one Sample, up to two of them in progress at a time,
\* with predictions saved in between.
NextPasses ==
    \/ NewSample({InitDefaults})
    \/ TileCall({TileOmitted}, BOOLEAN, MaxPasses, 2)
    \/ ShuffleCall({TileOmitted}, MaxPasses, 2)
    \/ Pull({1})
    \/ DropGen
    \/ Save({PyList(<<10, 11>>)})
    \/ Discard

SpecPasses == Init /\ [][NextPasses]_vars

\* Entry iteration mixed with every other operation on the Sample.
NextCursor ==
    \/ Construct({ListLit(<<"b.tif", "Dataset(c.tif)">>)}, {ExplicitCount})
    \/ NewSample({InitDefaults})
    \/ Iter
    \/ NextCall
    \/ AddData
    \/ Load
    \/ TileCall({TileOmitted}, {FALSE}, 1, 1)
    \/ Pull({1})
    \/ Save({PyList(<<10, 11>>)})
    \/ Discard

SpecCursor == Init /\ [][NextCursor]_vars

-----------------------------------------------------------------------------
(* Properties of SampleManifest. *)

WellFormed(m) ==
    /\ Len(heap[m.datasets]) = m.num_datasets
    /\ Len(heap[m.labels]) = m.num_datasets
    /\ Len(heap[m.metadata]) = m.num_datasets

ReturnsManifest ==
    ret.op \in {"SampleManifest", "concatenate"} /\ ret.exc = "None"

\* C1: every manifest returned by the constructor or by concatenate has
\* len(datasets) = len(labels) = len(metadata) = num_datasets.
C1_LengthsAgree == ReturnsManifest => WellFormed(ret.val)

\* What one operand of concatenate contributes to the result: for a manifest
\* its own sequences and count, for a raw source the one-element manifest
\* ([source], [False], [{}], 1).
Contribution(b) ==
    IF b.kind = "SampleManifest"
    THEN [datasets |-> heap[manifests[b.idx].datasets],
          labels |-> heap[manifests[b.idx].labels],
          metadata |-> heap[manifests[b.idx].metadata],
          num_datasets |-> manifests[b.idx].num_datasets]
    ELSE [datasets |-> <<b.val>>, labels |-> <<FALSE>>,
          metadata |-> <<EmptyDict>>, num_datasets |-> 1]

\* The operand of a concatenate call as the sequence B1..Bk.
OperandSeq(operand) ==
    IF operand.kind = "seq"
    THEN [k \in 1..Len(operand.idxs) |->
             [kind |-> "SampleManifest", idx |-> operand.idxs[k]]]
    ELSE <<operand>>

\* A's sequences followed by those of B1..Bk, and the sum of the counts.
RECURSIVE Expected(_, _)
Expected(acc, bs) ==
    IF bs = <<>> THEN acc
    ELSE LET c == Contribution(Head(bs))
         IN  Expected([datasets |-> acc.datasets \o c.datasets,
                       labels |-> acc.labels \o c.labels,
                       metadata |-> acc.metadata \o c.metadata,
                       num_datasets |-> acc.num_datasets + c.num_datasets],
                      Tail(bs))

\* C2: A.concatenate(B1..Bk) returns A's datasets, labels and metadata
\* followed by those of B1, ..., Bk in the order supplied, with num_datasets
\* the sum of the counts; a single manifest or raw source counts as a
\* one-element sequence.
C2_ConcatenateAppendsInOrder ==
    (ret.op = "concatenate" /\ ret.exc = "None") =>
        LET e == Expected(Contribution([kind |-> "SampleManifest",
                                         idx |-> ret.args.a]),
                          OperandSeq(ret.args.operand))
        IN  /\ heap[ret.val.datasets] = e.datasets
            /\ heap[ret.val.labels] = e.labels
            /\ heap[ret.val.metadata] = e.metadata
            /\ ret.val.num_datasets = e.num_datasets

\* A manifest was concatenated with a sequence of two manifests that differ,
\* the second being the manifest itself.
C2_Witness ==
    /\ ret.op = "concatenate"
    /\ ret.args.operand.kind = "seq"
    /\ Len(ret.args.operand.idxs) = 2
    /\ heap[manifests[ret.args.operand.idxs[1]].datasets]
           # heap[manifests[ret.args.operand.idxs[2]].datasets]
    /\ ret.args.a = ret.args.operand.idxs[2]

\* C3: a concatenate call changes no list that existed before it and no
\* manifest the caller holds, and the lists of its result are new objects,
\* shared with no operand.
C3_OperandsUnmodified ==
    [][(Idle /\ ret'.op = "concatenate") =>
          /\ manifests' = manifests
          /\ \A r \in 1..Len(heap) : heap'[r] = heap[r]
          /\ ManifestRefs(ret'.val) \cap (1..Len(heap)) = {}
          /\ Cardinality(ManifestRefs(ret'.val)) = 3]_vars

\* A manifest was concatenated with a sequence that holds the manifest itself.
C3_Witness ==
    /\ ret.op = "concatenate"
    /\ ret.args.operand.kind = "seq"
    /\ \E k \in 1..Len(ret.args.operand.idxs) :
          ret.args.operand.idxs[k] = ret.args.a
    /\ ret.val.num_datasets > manifests[ret.args.a].num_datasets

-----------------------------------------------------------------------------
(* Properties of entry iteration. *)

\* C4: with num_datasets = n, a call of next() with the cursor at i < n
\* returns (datasets[i], labels[i], metadata[i]), the dataset opened if it is
\* a path string, and the call with the cursor at n signals StopIteration.
C4_NextReturnsEntriesInOrder ==
    ret.op = "next" =>
        LET i == ret.args.i
            m == self.data
        IN  IF i < m.num_datasets
            THEN /\ ret.exc = "None"
                 /\ ret.val.dataset = Opened(heap[m.datasets][i + 1])
                 /\ ret.val.is_label = heap[m.labels][i + 1]
                 /\ ret.val.metadata = heap[m.metadata][i + 1]
            ELSE ret.exc = "StopIteration"

-----------------------------------------------------------------------------
(* Properties of unshuffle. *)

\* C5: for a permutation p and predictions s of the same length,
\* unshuffle(preds=s, shuffle_indices=p) is the v with s[k] = v[p[k]] for
\* every k: shuffling v by p and unshuffling gives v back.
C5_UnshuffleInvertsShuffle ==
    (/\ ret.op = "unshuffle"
     /\ ret.args.preds.kind # "None"
     /\ ret.args.shuffle_indices.kind # "None"
     /\ Len(ret.args.preds.val) = Len(ret.args.shuffle_indices.val)) =>
        LET s == ret.args.preds.val
            p == ret.args.shuffle_indices.val
            m == Len(p)
        IN  /\ ret.exc = "None"
            /\ \A v \in [1..m -> PredValues] :
                   (\A k \in 1..m : s[k] = v[p[k] + 1]) => ret.val.val = v

\* unshuffle was given three distinct predictions and a permutation that is
\* not its own inverse.
C5_Witness ==
    /\ ret.op = "unshuffle"
    /\ ret.exc = "None"
    /\ ret.args.preds.kind # "None"
    /\ ret.args.shuffle_indices.kind # "None"
    /\ ret.args.shuffle_indices.val = <<1, 2, 0>>
    /\ ret.args.preds.val = <<11, 12, 10>>
    /\ ret.val.val = <<10, 11, 12>>

-----------------------------------------------------------------------------
(* Properties of tiling passes. *)

\* The Tile the k-th raw tile array of a pass splits into.
RawTile(gen, k) ==
    LightPipeTile(Bands(gen.raw[k], gen.band_map[FALSE]),
                  Bands(gen.raw[k], gen.band_map[TRUE]), gen.band_map)

\* C6: in a started pass, with pos_only set no yielded Tile has an all-zero
\* y, with non_null_only set no yielded Tile has an all-zero X, and with both
\* unset the Tiles yielded so far are the first raw tile arrays in the
\* collaborator's order, all of them once the pass has finished.
C6_TileFiltering ==
    \A g \in Held :
        LET gen == gens[g]
            n == Len(gen.yielded)
        IN  gen.state \in {"suspended", "done"} =>
              /\ gen.pos_only =>
                    \A k \in 1..n : \E j \in 1..Len(gen.yielded[k].y) :
                        gen.yielded[k].y[j] # 0
              /\ gen.non_null_only =>
                    \A k \in 1..n : \E j \in 1..Len(gen.yielded[k].X) :
                        gen.yielded[k].X[j] # 0
              /\ (~gen.pos_only /\ ~gen.non_null_only) =>
                    /\ n <= Len(gen.raw)
                    /\ \A k \in 1..n : gen.yielded[k] = RawTile(gen, k)
                    /\ gen.state = "done" => n = Len(gen.raw)

\* A finished pass with pos_only set over two raw tiles, the first with an
\* all-zero label band and a non-zero feature band: only the second is
\* yielded.
C6_Witness ==
    \E g \in Held :
        /\ gens[g].state = "done"
        /\ gens[g].pos_only
        /\ ~gens[g].non_null_only
        /\ gens[g].band_map[TRUE] # <<>>
        /\ Len(gens[g].raw) = 2
        /\ \A j \in 1..Len(gens[g].band_map[TRUE]) :
              gens[g].raw[1][gens[g].band_map[TRUE][j] + 1] = 0
        /\ \E j \in 1..Len(gens[g].band_map[FALSE]) :
              gens[g].raw[1][gens[g].band_map[FALSE][j] + 1] # 0
        /\ gens[g].yielded = <<RawTile(gens[g], 2)>>

TileParams ==
    {"tile_y", "tile_x", "array_dtype", "row_major", "tile_coords",
     "pos_only", "non_null_only"}

\* The value of parameter p the pass of generator g works with: what
\* get_tiles was called with, or the filter flag the loop tests.
UsedBy(g, call, p) ==
    IF p = "pos_only" THEN Bool(gens'[g].pos_only)
    ELSE IF p = "non_null_only" THEN Bool(gens'[g].non_null_only)
    ELSE call[p]

\* C8: when a pass starts, each of tile_y, tile_x, array_dtype, row_major,
\* tile_coords, pos_only, non_null_only that was passed explicitly is the
\* value the pass uses and the value stored on the Sample afterwards; each
\* that was omitted is used with the value stored on the Sample before.
C8_TileParameterResolution ==
    [][(Idle /\ ret'.op = "pull" /\ ret'.calls # <<>>) =>
          LET g == ret'.args.g
              kw == gens[g].kw
          IN  \A p \in TileParams :
                IF kw[p].kind # "None"
                THEN /\ UsedBy(g, ret'.calls[1], p) = kw[p]
                     /\ self'[p] = kw[p]
                ELSE UsedBy(g, ret'.calls[1], p) = self[p]]_vars

\* The second pass on a Sample built with row_major=True starts with tile_y
\* omitted and row_major=False passed, after a first pass with tile_y=2: it
\* tiles with tile_y=2 and row_major=False.
C8_Witness ==
    /\ ret.op = "pull"
    /\ ret.calls # <<>>
    /\ ret.args.g = 2
    /\ gens[2].kw.tile_y = None
    /\ gens[2].kw.row_major = Bool(FALSE)
    /\ ret.calls[1].tile_y = PyInt(2)
    /\ ret.calls[1].row_major = Bool(FALSE)
    /\ self.row_major = Bool(FALSE)
    /\ self.array_dtype = Str("float32")

-----------------------------------------------------------------------------
(* Properties of save. *)

Writer == "make_north_up_dataset_from_tiles_like"

\* The predictions a call works with: the argument, or the Sample's.
Available(preds) == IF preds.kind = "None" THEN self.preds ELSE preds

\* C7 as stated: every save to a path ending in .tif calls the raster writer
\* exactly once, with the unshuffled predictions if the Sample holds shuffle
\* indices and with the predictions as given if it holds none.
C7_SaveTifCallsWriterOnce ==
    (ret.op = "save" /\ ret.args.savepath[2] = ".tif") =>
        /\ Len(ret.calls) = 1
        /\ ret.calls[1].fn = Writer
        /\ ret.calls[1].tiles =
              IF self.shuffle_indices.kind # "None"
              THEN SampleUnshuffle(self, ret.args.preds, None).val
              ELSE NpArray(Available(ret.args.preds))

\* C7, amended: a save to a path ending in .tif with predictions passed or
\* stored (not None) calls the raster writer exactly once, with the
\* predictions as given if the Sample holds no shuffle indices and with the
\* unshuffled predictions if it holds some and unshuffle succeeds; a save
\* with no predictions, or whose unshuffle fails, raises and never calls the
\* writer.
C7_SaveTifWithPreds ==
    (ret.op = "save" /\ ret.args.savepath[2] = ".tif") =>
        LET preds == Available(ret.args.preds)
            u == SampleUnshuffle(self, preds, None)
        IN  IF preds.kind = "None"
            THEN ret.exc = "AssertionError" /\ ret.calls = <<>>
            ELSE IF self.shuffle_indices.kind # "None" /\ u.exc # "None"
            THEN ret.exc = u.exc /\ ret.calls = <<>>
            ELSE /\ ret.exc = "None"
                 /\ Len(ret.calls) = 1
                 /\ ret.calls[1].fn = Writer
                 /\ ret.calls[1].tiles =
                       IF self.shuffle_indices.kind # "None"
                       THEN u.val ELSE NpArray(preds)

\* After a shuffled pass over two tiles in the order 1, 0, save("out.tif")
\* of the predictions 10, 11 hands 11, 10 to the writer.
C7_Witness ==
    /\ ret.op = "save"
    /\ ret.args.savepath[2] = ".tif"
    /\ ret.args.preds = PyList(<<10, 11>>)
    /\ self.shuffle_indices = NdArray(<<1, 0>>)
    /\ Len(gens) = 1
    /\ Len(ret.calls) = 1
    /\ ret.calls[1].tiles = NdArray(<<11, 10>>)

\* C9: unshuffle and save called without predictions on a Sample that holds
\* none (preds None, or the empty list a Sample built without preds has)
\* raise AssertionError.
C9_NoPredsFailsExplicitly ==
    (/\ ret.op \in {"unshuffle", "save"}
     /\ ret.args.preds.kind = "None"
     /\ (self.preds.kind = "None" \/ self.preds.val = <<>>)) =>
        ret.exc = "AssertionError"

\* C10 as stated: every save to a path ending in .csv or in another
\* unsupported extension raises NotImplementedError and calls no writer.
C10_SaveUnsupportedNotImplemented ==
    (ret.op = "save" /\ ret.args.savepath[2] # ".tif") =>
        ret.exc = "NotImplementedError" /\ ret.calls = <<>>

\* C10, amended: a save to a path ending in .csv or in another unsupported
\* extension raises NotImplementedError if predictions are passed or stored
\* (not None) and AssertionError if not; the writer is never called.
C10_SaveUnsupportedWithPreds ==
    (ret.op = "save" /\ ret.args.savepath[2] # ".tif") =>
        /\ ret.exc = IF Available(ret.args.preds).kind = "None"
                     THEN "AssertionError" ELSE "NotImplementedError"
        /\ ret.calls = <<>>

\* save("out.csv") with predictions passed has raised NotImplementedError.
C10_Witness ==
    /\ ret.op = "save"
    /\ ret.args.savepath[2] = ".csv"
    /\ ret.args.preds = PyList(<<10, 11>>)
    /\ ret.exc = "NotImplementedError"
    /\ ret.calls = <<>>

-----------------------------------------------------------------------------
(* Properties of manifest validation and uids. *)

\* C11: no malformed manifest is ever returned or held: a call of the
\* constructor or of concatenate either raises or returns a manifest whose
\* datasets, labels and metadata all have num_datasets entries.
C11_MalformedRejected ==
    /\ \A k \in 1..Len(manifests) : WellFormed(manifests[k])
    /\ ret.op \in {"SampleManifest", "concatenate"} =>
          (ret.exc # "None" \/ WellFormed(ret.val))

IsAutoUid(uid) == uid.val[1] = "sample_"

\* The constructions one call makes without a supplied uid: the manifest the
\* call returns, and the manifest concatenate wraps a raw source in.
AutoConstructions(r) ==
    IF r.op = "SampleManifest"
    THEN (IF r.args.optional.uid.kind = "None" THEN 1 ELSE 0)
    ELSE (IF r.args.operand.kind \in {"str", "Dataset"} THEN 1 ELSE 0)
         + (IF r.args.uid.kind = "None" THEN 1 ELSE 0)

SuppliedUid(r) ==
    IF r.op = "SampleManifest" THEN r.args.optional.uid ELSE r.args.uid

\* C12 (step): a call of the constructor or of concatenate raises the counter
\* by one for each construction it makes without a supplied uid and by
\* nothing for a construction with one; a returned manifest without a
\* supplied uid is named sample_{N:05d} for the value N the counter had at
\* its construction, and one with a supplied uid carries that uid.
C12_CounterStep ==
    [][(Idle /\ ret'.op \in {"SampleManifest", "concatenate"}) =>
          /\ MANIFEST_SAMPLE_NUM' = MANIFEST_SAMPLE_NUM + AutoConstructions(ret')
          /\ ret'.val.uid =
                IF SuppliedUid(ret').kind = "None"
                THEN [kind |-> "str",
                      val |-> <<"sample_",
                                 <<0, 0, 0, 0, MANIFEST_SAMPLE_NUM' - 1>> >>]
                ELSE SuppliedUid(ret')]_vars

\* C12 (uniqueness): the auto-generated uids of the manifests made so far are
\* pairwise distinct, and each is below the counter.
C12_AutoUidsDistinct ==
    /\ \A j, k \in 1..Len(manifests) :
          (j # k /\ IsAutoUid(manifests[j].uid)) =>
              manifests[j].uid # manifests[k].uid
    /\ (ret.op = "concatenate" /\ IsAutoUid(ret.val.uid)) =>
          \A k \in 1..Len(manifests) : manifests[k].uid # ret.val.uid

\* C12: the counter steps and the uniqueness together.
C12_UidsUnique == C12_CounterStep /\ []C12_AutoUidsDistinct

\* Two manifests with auto-generated uids are held and a concatenation of a
\* raw source, which wraps it in a third construction, has returned a fourth
\* auto-named manifest.
C12_Witness ==
    /\ Len(manifests) = 2
    /\ IsAutoUid(manifests[1].uid)
    /\ IsAutoUid(manifests[2].uid)
    /\ ret.op = "concatenate"
    /\ ret.args.operand.kind = "str"
    /\ ret.args.uid.kind = "None"
    /\ IsAutoUid(ret.val.uid)
    /\ MANIFEST_SAMPLE_NUM = 4

-----------------------------------------------------------------------------
(* Properties of unshuffle and of the stored permutation. *)

\* C13: unshuffle called without shuffle_indices on a Sample that stores
\* none returns the predictions it works with (the argument, or the Sample's
\* when none is passed) with the same elements in the same order, and
\* raises nothing.
C13_UnshuffleIdentityWithoutIndices ==
    (/\ ret.op = "unshuffle"
     /\ ret.args.shuffle_indices.kind = "None"
     /\ self.shuffle_indices.kind = "None"
     /\ Available(ret.args.preds).kind # "None") =>
        /\ ret.exc = "None"
        /\ ret.val.kind = "ndarray"
        /\ ret.val.val = Available(ret.args.preds).val

\* unshuffle(preds=[12, 10, 11]) on a Sample without shuffle indices has
\* returned 12, 10, 11.
C13_Witness ==
    /\ ret.op = "unshuffle"
    /\ ret.args.shuffle_indices.kind = "None"
    /\ self.shuffle_indices.kind = "None"
    /\ ret.args.preds = PyList(<<12, 10, 11>>)
    /\ ret.exc = "None"
    /\ ret.val = NdArray(<<12, 10, 11>>)

\* A step in which a pass starts: the first pull of a generator, where the
\* body of tile() runs up to its first yield.
PassStarts == Idle /\ ret'.op = "pull" /\ ret'.calls # <<>>

\* save to a .tif path on a Sample that stores a permutation p hands the
\* writer the t with preds[k] = t[p[k]] for every k.
SaveInvertsStored ==
    (/\ ret.op = "save"
     /\ ret.args.savepath[2] = ".tif"
     /\ ret.exc = "None"
     /\ self.shuffle_indices.kind # "None") =>
        LET p == self.shuffle_indices.val
            t == ret.calls[1].tiles.val
            s == Available(ret.args.preds).val
        IN  /\ Len(t) = Len(p)
            /\ \A k \in 1..Len(p) : s[k] = t[p[k] + 1]

\* C14 as stated: the stored shuffle_indices is the permutation of the most
\* recent shuffled pass: a shuffled pass that starts stores its permutation,
\* a pass that is not shuffled leaves the stored one alone, and no other
\* step changes it; tile_coords and band_map are those the collaborator
\* returned to the pass that started last; save inverts the stored
\* permutation.
C14_StoredFromLatestShuffledPass ==
    /\ [][self.live =>
            IF PassStarts
            THEN /\ self'.shuffle_indices =
                       IF gens[ret'.args.g].shuffle_tiles
                       THEN ret'.returned.shuffle_indices
                       ELSE self.shuffle_indices
                 /\ self'.tile_coords = ret'.returned.tile_coords
                 /\ self'.band_map.val = ret'.returned.band_map
            ELSE /\ self'.shuffle_indices = self.shuffle_indices
                 /\ self'.tile_coords = self.tile_coords
                 /\ self'.band_map = self.band_map]_vars
    /\ []SaveInvertsStored

\* C14, amended: the stored shuffle_indices, tile_coords and band_map are
\* those the collaborator returned to the pass that started last (was first
\* pulled last), whether it was shuffled or not: shuffle_indices is that
\* pass's permutation of its raw tiles if it was shuffled and None if it was
\* not, so a plain pass clears the permutation of an earlier shuffled pass;
\* no other step changes the three; save inverts the stored permutation.
C14_StoredFromLatestStartedPass ==
    /\ [][self.live =>
            IF PassStarts
            THEN /\ self'.shuffle_indices = ret'.returned.shuffle_indices
                 /\ IF gens[ret'.args.g].shuffle_tiles
                    THEN /\ self'.shuffle_indices.kind = "ndarray"
                         /\ self'.shuffle_indices.val \in
                               Perms(Len(gens'[ret'.args.g].raw))
                    ELSE self'.shuffle_indices.kind = "None"
                 /\ self'.tile_coords = ret'.returned.tile_coords
                 /\ self'.band_map.val = ret'.returned.band_map
            ELSE /\ self'.shuffle_indices = self.shuffle_indices
                 /\ self'.tile_coords = self.tile_coords
                 /\ self'.band_map = self.band_map]_vars
    /\ []SaveInvertsStored

\* A shuffled pass over two tiles has started, a plain pass has started
\* after it, and save("out.tif") of 10, 11 has handed 10, 11 to the writer.
C14_Witness ==
    /\ Len(gens) = 2
    /\ gens[1].state \in {"suspended", "done"}
    /\ gens[1].shuffle_tiles
    /\ Len(gens[1].raw) = 2
    /\ gens[2].state \in {"suspended", "done"}
    /\ ~gens[2].shuffle_tiles
    /\ self.shuffle_indices.kind = "None"
    /\ ret.op = "save"
    /\ ret.args.savepath[2] = ".tif"
    /\ ret.calls # <<>>
    /\ ret.calls[1].tiles = NdArray(<<10, 11>>)

-----------------------------------------------------------------------------
(* Properties of filtering in shuffled passes. *)

AllZero(a) == \A k \in 1..Len(a) : a[k] = 0

\* The Tiles of the raw tile arrays of a pass that its filters let through,
\* in the order the collaborator returned the arrays.
Passing(gen) ==
    LET all == [k \in 1..Len(gen.raw) |-> RawTile(gen, k)]
        Lets(t) == /\ ~(gen.pos_only /\ AllZero(t.y))
                   /\ ~(gen.non_null_only /\ AllZero(t.X))
    IN  SelectSeq(all, Lets)

\* C15: in a started shuffled pass with pos_only or non_null_only set, the
\* stored shuffle_indices is a permutation of as many positions as the
\* collaborator returned raw tiles, filtered-out tiles included, and the
\* Tiles yielded so far are the first of the non-filtered raw tiles in the
\* collaborator's shuffled order, all of them once the pass has finished.
C15_FilteringAfterShuffling ==
    \A g \in Held :
        LET gen == gens[g]
            n == Len(gen.yielded)
        IN  (/\ gen.state \in {"suspended", "done"}
             /\ gen.shuffle_tiles
             /\ gen.pos_only \/ gen.non_null_only) =>
              /\ self.shuffle_indices.kind = "ndarray"
              /\ self.shuffle_indices.val \in Perms(Len(gen.raw))
              /\ n <= Len(Passing(gen))
              /\ gen.yielded = SubSeq(Passing(gen), 1, n)
              /\ gen.state = "done" => n = Len(Passing(gen))

\* A finished shuffled pass with pos_only set over two raw tiles of which the
\* first has an all-zero label band: one Tile was yielded, the stored
\* permutation has two positions.
C15_Witness ==
    \E g \in Held :
        /\ gens[g].state = "done"
        /\ gens[g].shuffle_tiles
        /\ gens[g].pos_only
        /\ Len(gens[g].raw) = 2
        /\ AllZero(RawTile(gens[g], 1).y)
        /\ ~AllZero(RawTile(gens[g], 2).y)
        /\ Len(gens[g].yielded) = 1
        /\ self.shuffle_indices = NdArray(<<1, 0>>)

-----------------------------------------------------------------------------
(* Properties of add_data and load. *)

\* The entries add_data(data) is to append: those of a manifest, or for raw
\* sources one entry each, not a label, with empty metadata.
AddedEntries(data) ==
    IF data.kind = "SampleManifest"
    THEN LET m == manifests[data.idx]
         IN  [datasets |-> heap[m.datasets], labels |-> heap[m.labels],
              metadata |-> heap[m.metadata], num |-> m.num_datasets]
    ELSE LET d == IF data.kind = "listlit" THEN data.val ELSE <<data.val>>
         IN  [datasets |-> d, labels |-> [k \in 1..Len(d) |-> FALSE],
              metadata |-> [k \in 1..Len(d) |-> EmptyDict], num |-> Len(d)]

SampleFields ==
    {"live", "preds", "pos_only", "non_null_only", "tile_y", "tile_x",
     "array_dtype", "row_major", "tile_coords", "shuffle_indices", "band_map",
     "_i"}

\* C16: add_data(data) makes the Sample's manifest the current entries
\* followed by those of data, in new lists; the manifest held before, every
\* list that existed and the caller's manifests are as they were; the cursor
\* and every other field of the Sample are unchanged; the Sample itself is
\* returned.
C16_AddDataReplacesManifest ==
    [][(Idle /\ ret'.op = "add_data") =>
          LET old == self.data
              new == self'.data
              add == AddedEntries(ret'.args.data)
          IN  /\ heap'[new.datasets] = heap[old.datasets] \o add.datasets
              /\ heap'[new.labels] = heap[old.labels] \o add.labels
              /\ heap'[new.metadata] = heap[old.metadata] \o add.metadata
              /\ new.num_datasets = old.num_datasets + add.num
              /\ \A r \in 1..Len(heap) : heap'[r] = heap[r]
              /\ ManifestRefs(new) \cap (1..Len(heap)) = {}
              /\ manifests' = manifests
              /\ \A f \in SampleFields : self'[f] = self[f]
              /\ ret'.exc = "None"
              /\ ret'.val = TheSample]_vars

\* add_data of a manifest of two entries on a Sample of one entry whose
\* cursor stood at 1.
C16_Witness ==
    /\ ret.op = "add_data"
    /\ ret.args.data.kind = "SampleManifest"
    /\ ret.args.old.num_datasets = 1
    /\ self.data.num_datasets = 3
    /\ self._i = 1

\* C17: load() replaces every path string of the Sample's datasets list, in
\* place and at its index, by the opened handle, so that no entry is a path
\* string afterwards, and leaves labels, metadata, num_datasets and the
\* cursor alone; next() returns the opened handle of a path-string entry and
\* leaves the string in the list.
C17_LoadOpensInPlace ==
    [][/\ (Idle /\ ret'.op = "load") =>
             LET ds == self.data.datasets
             IN  /\ ret'.exc = "None"
                 /\ Len(heap') = Len(heap)
                 /\ Len(heap'[ds]) = Len(heap[ds])
                 /\ \A k \in 1..Len(heap[ds]) :
                       /\ heap'[ds][k] = Opened(heap[ds][k])
                       /\ ~IsStr(heap'[ds][k])
                 /\ \A r \in (1..Len(heap)) \ {ds} : heap'[r] = heap[r]
                 /\ self' = self
       /\ (Idle /\ ret'.op = "next" /\ ret'.exc = "None") =>
             LET d == heap[self.data.datasets][self._i + 1]
             IN  /\ heap' = heap
                 /\ self'.data = self.data
                 /\ IsStr(d) => /\ ret'.val.dataset = gdalOpen(d)
                                 /\ heap'[self.data.datasets][self._i + 1] = d]_vars

-----------------------------------------------------------------------------
(* Properties of interleaved passes. *)

\* The order a pass yields in, as a permutation of n positions: the
\* shuffle_indices it got from the collaborator, or the identity.
OrderOf(shuffle_indices, n) ==
    IF shuffle_indices.kind = "None" THEN Arange(n) ELSE shuffle_indices.val

\* The predictions s, made in the order p, back in spatial order.
Restored(s, p) == [i \in 1..Len(p) |-> s[CHOOSE k \in 1..Len(p) : p[k] = i - 1]]

\* C18: the Sample stores the permutation of one pass only.  When a pass g
\* has started and the stored shuffle_indices is the order of another pass
\* that started after it, a save to a .tif path of the predictions made for
\* the tiles of g hands the writer a sequence that is not those predictions
\* in spatial order.
C18_InterleavedPassesUnsafe ==
    \A g \in Held :
        (/\ ret.op = "save"
         /\ ret.args.savepath[2] = ".tif"
         /\ ret.exc = "None"
         /\ ret.args.preds.kind # "None"
         /\ gens[g].state \in {"suspended", "done"}
         /\ Len(gens[g].raw) = Len(ret.args.preds.val)
         /\ Len(OrderOf(self.shuffle_indices, Len(gens[g].raw)))
               = Len(gens[g].raw)
         /\ OrderOf(self.shuffle_indices, Len(gens[g].raw))
               # OrderOf(gens[g].shuffle_indices, Len(gens[g].raw))) =>
            ret.calls[1].tiles.val #
                Restored(ret.args.preds.val,
                         OrderOf(gens[g].shuffle_indices, Len(gens[g].raw)))

\* Two passes are in progress on one Sample: the first, shuffled into the
\* order 1, 0, is suspended at a yield, the second, not shuffled, started
\* after it.  save("out.tif") of the predictions 10, 11 of the first pass
\* hands 10, 11 to the writer, where 11, 10 is their spatial order.
C18_Witness ==
    /\ Len(gens) = 2
    /\ gens[1].state = "suspended"
    /\ gens[1].shuffle_indices = NdArray(<<1, 0>>)
    /\ gens[2].state = "suspended"
    /\ gens[2].shuffle_indices.kind = "None"
    /\ self.shuffle_indices.kind = "None"
    /\ ret.op = "save"
    /\ ret.args.savepath[2] = ".tif"
    /\ ret.args.preds = PyList(<<10, 11>>)
    /\ ret.exc = "None"
    /\ ret.calls[1].tiles = NdArray(<<10, 11>>)

-----------------------------------------------------------------------------
(* Properties of laziness. *)

\* C19: a call of tile() or shuffle() changes no field of the Sample and
\* calls no collaborator, whatever its arguments, and neither does dropping
\* the generator; the first pull of a generator calls get_tiles once; every
\* later pull of it leaves the Sample as it is and calls no collaborator.
C19_TilingIsLazy ==
    [][/\ (Idle /\ ret'.op \in {"tile", "shuffle"}) =>
             /\ self' = self
             /\ ret'.calls = <<>>
             /\ gens'[Len(gens')].state = "created"
       /\ (Idle /\ ret'.op = "pull") =>
             IF gens[ret'.args.g].state = "created"
             THEN Len(ret'.calls) = 1 /\ ret'.calls[1].fn = "get_tiles"
             ELSE self' = self /\ ret'.calls = <<>>
       /\ (Idle /\ ret' = ret) => self' = self]_vars

\* tile(tile_y=2, array_dtype="float32", tile_coords=...) has been called on
\* a Sample, nothing was pulled, and the Sample still has another tile_y.
C19_Witness ==
    /\ ret.op = "tile"
    /\ ret.args.kw.tile_y = PyInt(2)
    /\ gens[Len(gens)].state = "created"
    /\ self.tile_y # PyInt(2)
    /\ self.array_dtype # Str("float32")
    /\ self.band_map.kind = "unset"

-----------------------------------------------------------------------------
(* Properties of the cursor. *)

\* 0 <= _i <= num_datasets
CursorInRange ==
    self.live => (0 <= self._i /\ self._i <= self.data.num_datasets)

\* C20: the cursor stays within 0..num_datasets and no operation lowers it;
\* next() with the cursor at i < num_datasets returns entry i and moves the
\* cursor to i + 1, so that no entry is returned twice, and with the cursor
\* at num_datasets it signals StopIteration and leaves the cursor, also
\* after iter(); add_data on an exhausted Sample leaves the cursor at the
\* first of the added entries, which the next call of next() returns.
C20_CursorInvariants ==
    /\ []CursorInRange
    /\ [][self.live =>
            /\ self'._i >= self._i
            /\ (Idle /\ ret'.op = "iter") =>
                  self' = self /\ ret'.val = TheSample
            /\ (Idle /\ ret'.op = "next") =>
                  LET i == self._i
                      m == self.data
                  IN  IF i < m.num_datasets
                      THEN /\ ret'.exc = "None"
                           /\ ret'.val =
                                 [dataset |-> Opened(heap[m.datasets][i + 1]),
                                  is_label |-> heap[m.labels][i + 1],
                                  metadata |-> heap[m.metadata][i + 1]]
                           /\ self'._i = i + 1
                      ELSE /\ ret'.exc = "StopIteration"
                           /\ self'._i = i
            /\ (/\ Idle
                /\ ret'.op = "add_data"
                /\ self._i = self.data.num_datasets
                /\ AddedEntries(ret'.args.data).num > 0) =>
                  LET add == AddedEntries(ret'.args.data)
                      new == self'.data
                  IN  /\ self'._i < new.num_datasets
                      /\ heap'[new.datasets][self'._i + 1] = add.datasets[1]
                      /\ heap'[new.labels][self'._i + 1] = add.labels[1]
                      /\ heap'[new.metadata][self'._i + 1] = add.metadata[1]]_vars

=============================================================================
